---- MODULE Spec2Model ----
(***************************************************************************)
(* setprotocol.js: the contract-handle cache of ProtocolContractWrapper,   *)
(* the ProtocolViewerWrapper built on it and the ERC20API facade.          *)
(*                                                                         *)
(* An async method runs without interruption up to its next `await`; every *)
(* `await` is a point where other calls may run.  Each action below is one *)
(* such uninterrupted segment.                                             *)
(***************************************************************************)
EXTENDS Integers, Sequences, FiniteSets, TLC

VARIABLES
  cache,     \* cache[w]: the `cache` object of ProtocolContractWrapper w (key -> handle)
  handles,   \* every contract handle constructed so far; a handle's identity is its index
  calls,     \* every loader call made so far, in the order the calls started
  apiCalls,  \* every ERC20API call made so far, in the order the calls started
  chain,     \* the token contracts' storage on the chain, as of the latest block
  txs        \* every transaction submitted to the node, in the order of submission

vars == <<cache, handles, calls, apiCalls, chain, txs>>

(* ------------------------------ bounds -------------------------------- *)

\* loader calls made directly on a ProtocolContractWrapper
MaxLoads == 3
\* ERC20API calls of ApiSpec
MaxApiCalls == 2
\* ERC20API calls of ReadSpec
MaxReads == 3
\* longest tokenAddresses array passed to a batch method
MaxTokens == 2

\* Two ERC20API objects, built from the same SetProtocolConfig.
Apis == {1, 2}

(* ------------------------- ProtocolContractWrapper --------------------- *)

\* The contract class each loader constructs with `<Class>Contract.at(...)`.
Kinds ==
  { "Core", "SetToken", "RebalancingSetToken", "ERC20Detailed", "Vault",
    "TransferProxy", "RebalanceAuctionModule", "KyberNetworkWrapper",
    "RebalancingSetExchangeIssuanceModule", "RebalancingSetIssuanceModule",
    "Authorizable", "TimeLockUpgrade", "WhiteList", "ExchangeIssuanceModule",
    "Median", "ProtocolViewer" }

\* The text each loader puts before "_" in its cacheKey template literal.
cacheKeyPrefix(kind) ==
  CASE kind = "Core" -> "Core"
    [] kind = "SetToken" -> "SetToken"
    [] kind = "RebalancingSetToken" -> "RebalancingSetToken"
    [] kind = "ERC20Detailed" -> "ERC20Token"
    [] kind = "Vault" -> "Vault"
    [] kind = "TransferProxy" -> "Vault"
    [] kind = "RebalanceAuctionModule" -> "RebalanceAuctionModule"
    [] kind = "KyberNetworkWrapper" -> "KyberNetworkWrapper"
    [] kind = "RebalancingSetExchangeIssuanceModule" -> "RebalancingSetExchangeIssuanceModule"
    [] kind = "RebalancingSetIssuanceModule" -> "RebalancingSetIssuanceModule"
    [] kind = "Authorizable" -> "Authorizable"
    [] kind = "TimeLockUpgrade" -> "TimeLockUpgrade"
    [] kind = "WhiteList" -> "WhiteList"
    [] kind = "ExchangeIssuanceModule" -> "ExchangeIssuanceModule"
    [] kind = "Median" -> "Medianizer"
    [] kind = "ProtocolViewer" -> "ProtocolViewer"

\* A key that leaves the address out.
cacheKeyOfKind(kind, address) == <<cacheKeyPrefix(kind), "">>

\* `${prefix}_${address}`.  No prefix holds "_", so the text is split again at
\* its first "_" without loss: the pair stands for the concatenation.
cacheKey(kind, address) == <<cacheKeyPrefix(kind), address>>

\* `cacheKey in this.cache`
inCache(w, key) == key \in DOMAIN cache[w]

\* A cache that holds the latest handle only.
cacheOnlyLatest(w, key, h) == [cache EXCEPT ![w] = [k \in {key} |-> h]]

\* `this.cache[cacheKey] = contract`
cachePut(w, key, h) ==
  [cache EXCEPT ![w] = [k \in DOMAIN cache[w] \cup {key} |->
                          IF k = key THEN h ELSE cache[w][k]]]

(* ---------------------------- loader calls ----------------------------- *)

\* One loader, from its call to its first `await` (or to its return, on a cache
\* hit): the call as it stands when control leaves the loader.  `by` is the
\* ERC20API call the load was made for, 0 for a direct call.
loadAsync(w, kind, address, transactionOptions, by) ==
  LET key == cacheKey(kind, address)
      call == [w |-> w, kind |-> kind, address |-> address,
               options |-> transactionOptions, by |-> by,
               constructed |-> FALSE,
               pc |-> "awaiting", handle |-> 0, error |-> "none"]
  IN IF inCache(w, key)
       THEN [call EXCEPT !.pc = "returned", !.handle = cache[w][key]]
       ELSE call

\* `<Class>Contract.at(address, this.web3, transactionOptions)` resolved: the
\* loader stores the new handle under its key and returns it.
atResolved(c) ==
  LET call == calls[c]
      h == Len(handles) + 1
  IN /\ call.pc = "awaiting"
     /\ handles' = Append(handles, [kind |-> call.kind, address |-> call.address,
                                     options |-> call.options, w |-> call.w])
     /\ cache' = cachePut(call.w, cacheKey(call.kind, call.address), h)
     /\ calls' = [calls EXCEPT ![c].pc = "returned", ![c].handle = h,
                                ![c].constructed = TRUE]

\* `<Class>Contract.at(...)` rejected: the loader has no try/catch, the
\* rejection leaves it as it came and nothing is stored.
atRejected(c, e) ==
  /\ calls[c].pc = "awaiting"
  /\ calls' = [calls EXCEPT ![c].pc = "rejected", ![c].error = e]
  /\ UNCHANGED <<cache, handles>>

(* ------------------------------ addresses ------------------------------ *)

\* Address values are named; AddressText gives the characters of each.
Tokens == {"TOKEN_A", "TOKEN_B"}
Malformed == {"NO_PREFIX", "TOO_SHORT", "NON_HEX"}

Repeat(ch, n) == [i \in 1..n |-> ch]

\* {40} of the /Address schema's pattern "^0x[0-9a-fA-F]{40}$"
AddressHexDigits == 40

HexDigits ==
  { "0", "1", "2", "3", "4", "5", "6", "7", "8", "9",
    "a", "b", "c", "d", "e", "f", "A", "B", "C", "D", "E", "F" }

AddressText(a) ==
  CASE a = "TOKEN_A" -> <<"0", "x">> \o Repeat("a", AddressHexDigits)
    [] a = "TOKEN_B" -> <<"0", "x">> \o Repeat("B", AddressHexDigits)
    [] a = "USER" -> <<"0", "x">> \o Repeat("1", AddressHexDigits)
    [] a = "VIEWER" -> <<"0", "x">> \o Repeat("F", AddressHexDigits - 1) \o <<"0">>
    \* 'InvalidRebalancingSetTokenAddress'
    [] a = "NO_PREFIX" ->
         << "I", "n", "v", "a", "l", "i", "d", "R", "e", "b", "a", "l", "a",
            "n", "c", "i", "n", "g", "S", "e", "t", "T", "o", "k", "e", "n",
            "A", "d", "d", "r", "e", "s", "s" >>
    [] a = "TOO_SHORT" -> <<"0", "x">> \o Repeat("a", AddressHexDigits - 1)
    [] a = "NON_HEX" -> <<"0", "x">> \o Repeat("a", AddressHexDigits - 1) \o <<"g">>

\* The pattern ^0x[0-9a-fA-F]{40}$ on a text.
matchesAddressPattern(text) ==
  /\ Len(text) = 2 + AddressHexDigits
  /\ text[1] = "0"
  /\ text[2] = "x"
  /\ \A i \in 3..Len(text) : text[i] \in HexDigits

(* ------------------- direct calls of the loaders ----------------------- *)

\* The loaders the direct calls go through, the addresses and the
\* transactionOptions they pass ("{}" is the parameter's default).
LoadKinds == {"Vault", "TransferProxy", "ProtocolViewer"}
LoadAddresses == {"TOKEN_A", "TOKEN_B"}
LoadOptions == {"{}", "{from}"}
\* What a rejected `at` or a failed remote call raises.
TransportErrors == {"transport failure"}

\* The ProtocolContractWrapper the direct calls are made on.
DirectWrapper == <<"caller", 1>>

\* Every ProtocolContractWrapper object: the caller's own, and the one each
\* ProtocolViewerWrapper and each ERC20Wrapper constructs for itself.
ContractWrappers ==
  {DirectWrapper} \cup ({"ProtocolViewerWrapper", "ERC20Wrapper"} \X Apis)

Load(w, kind, address, transactionOptions) ==
  /\ Len(calls) < MaxLoads
  /\ calls' = Append(calls, loadAsync(w, kind, address, transactionOptions, 0))
  /\ UNCHANGED <<cache, handles, apiCalls, chain, txs>>

AtResolves(c) ==
  /\ atResolved(c)
  /\ UNCHANGED <<apiCalls, chain, txs>>

AtRejects(c, e) ==
  /\ atRejected(c, e)
  /\ UNCHANGED <<apiCalls, chain, txs>>

(* ------------------------------ the chain ------------------------------ *)

\* The token contracts as deployed: USER's balance of each token and the
\* allowance USER holds on each, and the number of the latest block.
InitChain ==
  [ balance |-> [t \in Tokens |-> IF t = "TOKEN_A" THEN 1 ELSE 2],
    allowance |-> [t \in Tokens |-> 0],
    block |-> 0 ]

totalSupply(t) == IF t = "TOKEN_A" THEN 10 ELSE 20

\* The effect of a mined transaction on the token it was sent to.
mined(tx) ==
  CASE tx.method = "transfer" ->
         [chain EXCEPT !.balance[tx.token] = @ + tx.value, !.block = @ + 1]
    [] tx.method = "transferFrom" ->
         [chain EXCEPT !.balance[tx.token] = @ + tx.value, !.block = @ + 1]
    [] tx.method = "approve" ->
         [chain EXCEPT !.allowance[tx.token] = tx.value, !.block = @ + 1]

\* What the contract behind handle h answers to a read-only call.
callAsync(h, method, args) ==
  LET at == handles[h].address IN
  CASE method = "balanceOf" -> <<chain.balance[at]>>
    [] method = "allowance" -> <<chain.allowance[at]>>
    [] method = "totalSupply" -> <<totalSupply(at)>>
    [] method \in {"name", "symbol", "decimals"} -> <<method, at>>
    [] method = "batchFetchBalancesOf" ->
         [i \in 1..Len(args.tokenAddresses) |-> chain.balance[args.tokenAddresses[i]]]
    [] method = "batchFetchSupplies" ->
         [i \in 1..Len(args.tokenAddresses) |-> totalSupply(args.tokenAddresses[i])]

(* ------------------------------ Assertions ----------------------------- *)

NoError == [type |-> "none"]
remoteError(e) == [type |-> "remote", message |-> e]

\* What assert.schema.isValidAddress(variableName, value) throws.
schemaError(variableName, value) ==
  [ type |-> "validation",
    variableName |-> variableName,
    encountered |-> value,
    message |-> << "Expected ", variableName, " to conform to schema /Address.",
                   "Encountered: ", value,
                   "Validation errors: instance does not match pattern ",
                   "^0x[0-9a-fA-F]{40}$" >> ]

\* assert.schema.isValidAddress(variableName, value) returns (TRUE) or throws.
isValidAddress(variableName, value) == matchesAddressPattern(AddressText(value))

(* ------------------------------- ERC20API ------------------------------ *)

\* Each private assertion, as the isValidAddress calls it makes, in order.
assertGetBalanceOf(args) ==
  << <<"tokenAddress", args.tokenAddress>>, <<"userAddress", args.userAddress>> >>

\* The array's elements left unchecked.
assertGetBalancesOfUserOnly(args) == << <<"userAddress", args.userAddress>> >>

\* The array's elements reported under the array's name.
assertGetTotalSuppliesNamedArray(args) ==
  [i \in 1..Len(args.tokenAddresses) |-> <<"tokenAddresses", args.tokenAddresses[i]>>]

assertGetBalancesOf(args) ==
  << <<"userAddress", args.userAddress>> >>
    \o [i \in 1..Len(args.tokenAddresses) |-> <<"tokenAddress", args.tokenAddresses[i]>>]

assertTokenAddress(args) == << <<"tokenAddress", args.tokenAddress>> >>

assertGetTotalSuppliesAsync(args) ==
  [i \in 1..Len(args.tokenAddresses) |-> <<"tokenAddress", args.tokenAddresses[i]>>]

assertGetAllowance(args) ==
  << <<"tokenAddress", args.tokenAddress>>, <<"ownerAddress", args.ownerAddress>>,
     <<"spenderAddress", args.spenderAddress>> >>

assertTransfer(args) ==
  << <<"tokenAddress", args.tokenAddress>>, <<"to", args.to>> >>

assertTransferFrom(args) ==
  << <<"tokenAddress", args.tokenAddress>>, <<"from", args.from>>, <<"to", args.to>> >>

assertApprove(args) ==
  << <<"tokenAddress", args.tokenAddress>>, <<"spenderAddress", args.spenderAddress>> >>

Methods ==
  { "getBalanceOfAsync", "getBalancesOfAsync", "getNameAsync", "getSymbolAsync",
    "getTotalSupplyAsync", "getTotalSuppliesAsync", "getDecimalsAsync",
    "getAllowanceAsync", "transferAsync", "transferFromAsync", "approveAsync" }

\* The assertion each public method opens with.
assertionsOf(method, args) ==
  CASE method = "getBalanceOfAsync" -> assertGetBalanceOf(args)
    [] method = "getBalancesOfAsync" -> assertGetBalancesOf(args)
    [] method \in {"getNameAsync", "getSymbolAsync", "getTotalSupplyAsync",
                   "getDecimalsAsync"} -> assertTokenAddress(args)
    [] method = "getTotalSuppliesAsync" -> assertGetTotalSuppliesAsync(args)
    [] method = "getAllowanceAsync" -> assertGetAllowance(args)
    [] method = "transferAsync" -> assertTransfer(args)
    [] method = "transferFromAsync" -> assertTransferFrom(args)
    [] method = "approveAsync" -> assertApprove(args)

\* The first isValidAddress call of the assertion that throws, 0 when none does.
firstThrow(checks) ==
  LET bad == {i \in 1..Len(checks) : ~isValidAddress(checks[i][1], checks[i][2])}
  IN IF bad = {} THEN 0 ELSE CHOOSE i \in bad : \A j \in bad : i <= j

\* The wrapper method each public method forwards to after its assertion.
wrapperMethod(method) ==
  CASE method = "getBalanceOfAsync" -> <<"ERC20Wrapper", "balanceOf">>
    [] method = "getBalancesOfAsync" -> <<"ProtocolViewerWrapper", "batchFetchBalancesOf">>
    [] method = "getNameAsync" -> <<"ERC20Wrapper", "name">>
    [] method = "getSymbolAsync" -> <<"ERC20Wrapper", "symbol">>
    [] method = "getTotalSupplyAsync" -> <<"ERC20Wrapper", "totalSupply">>
    [] method = "getTotalSuppliesAsync" -> <<"ProtocolViewerWrapper", "batchFetchSupplies">>
    [] method = "getDecimalsAsync" -> <<"ERC20Wrapper", "decimals">>
    [] method = "getAllowanceAsync" -> <<"ERC20Wrapper", "allowance">>
    [] method = "transferAsync" -> <<"ERC20Wrapper", "transfer">>
    [] method = "transferFromAsync" -> <<"ERC20Wrapper", "transferFrom">>
    [] method = "approveAsync" -> <<"ERC20Wrapper", "approve">>

Writes == {"transferAsync", "transferFromAsync", "approveAsync"}

\* new ProtocolViewerWrapper(web3, config.protocolViewerAddress): the address
\* the wrapper keeps, and the ProtocolContractWrapper it constructs for itself.
protocolViewerAddress(v) == "VIEWER"
\* One ProtocolContractWrapper shared by every ProtocolViewerWrapper.
sharedContracts(v) == <<"ProtocolViewerWrapper", 1>>
viewerContracts(v) == <<"ProtocolViewerWrapper", v>>

\* new ERC20Wrapper(web3): the ProtocolContractWrapper it constructs for itself.
erc20Contracts(a) == <<"ERC20Wrapper", a>>

\* The loader call every ProtocolViewerWrapper method opens with:
\* `await this.contracts.loadProtocolViewerContract(this.protocolViewerAddress)`.
viewerLoad(a, c) ==
  loadAsync(viewerContracts(a), "ProtocolViewer", protocolViewerAddress(a), "{}", c)

\* The loader call every ERC20Wrapper method opens with: it loads the token.
erc20Load(a, args, c) ==
  loadAsync(erc20Contracts(a), "ERC20Detailed", args.tokenAddress, "{}", c)

\* The wrapper method a public method forwards to, up to its first `await`.
wrapperLoad(a, method, args, c) ==
  IF wrapperMethod(method)[1] = "ProtocolViewerWrapper"
    THEN viewerLoad(a, c)
    ELSE erc20Load(a, args, c)

\* A public method of ERC20API a, from its call to its first `await`: the
\* assertion throws, or the wrapper method is called and calls its loader.
Invoke(a, method, args) ==
  LET c == Len(apiCalls) + 1
      checks == assertionsOf(method, args)
      thrown == firstThrow(checks)
      call == [api |-> a, method |-> method, args |-> args, pc |-> "loading",
               load |-> 0, wrapperCalls |-> 0, remoteCalls |-> 0,
               result |-> <<>>, error |-> NoError, fault |-> NoError,
               tx |-> 0, block |-> 0]
  IN IF thrown # 0
       THEN /\ apiCalls' = Append(apiCalls,
                 [call EXCEPT !.pc = "rejected",
                              !.error = schemaError(checks[thrown][1], checks[thrown][2])])
            /\ UNCHANGED <<cache, handles, calls, chain, txs>>
       ELSE /\ apiCalls' = Append(apiCalls,
                 [call EXCEPT !.load = Len(calls) + 1, !.wrapperCalls = 1])
            /\ calls' = Append(calls, wrapperLoad(a, method, args, c))
            /\ UNCHANGED <<cache, handles, chain, txs>>

\* The loader's rejection reaches the caller of the public method as it is.
LoadFailed(c) ==
  /\ apiCalls[c].pc = "loading"
  /\ calls[apiCalls[c].load].pc = "rejected"
  /\ apiCalls' = [apiCalls EXCEPT ![c].pc = "rejected",
                                  ![c].error = remoteError(calls[apiCalls[c].load].error)]
  /\ UNCHANGED <<cache, handles, calls, chain, txs>>

\* A read: the wrapper method calls the contract through the handle its loader
\* returned, and the public method returns what the contract answered.
Answered(c) ==
  LET call == apiCalls[c] IN
  /\ call.pc = "loading"
  /\ call.method \notin Writes
  /\ calls[call.load].pc = "returned"
  /\ apiCalls' = [apiCalls EXCEPT ![c].pc = "done",
          ![c].remoteCalls = @ + 1,
          ![c].block = chain.block,
          ![c].result = callAsync(calls[call.load].handle,
                                  wrapperMethod(call.method)[2], call.args)]
  /\ UNCHANGED <<cache, handles, calls, chain, txs>>

\* The failed remote call tried again.
retry(call, e) == [call EXCEPT !.pc = "loading"]

\* `return await ...`: what a failed remote call leaves of the call.
rethrow(call, e) == [call EXCEPT !.pc = "rejected", !.error = remoteError(e)]

\* The remote call (a read or the sending of a transaction) fails.
RemoteFails(c, e) ==
  LET call == apiCalls[c] IN
  /\ call.pc = "loading"
  /\ calls[call.load].pc = "returned"
  /\ apiCalls' = [apiCalls EXCEPT ![c] =
          rethrow([call EXCEPT !.remoteCalls = @ + 1, !.fault = remoteError(e)], e)]
  /\ UNCHANGED <<cache, handles, calls, chain, txs>>

\* A write: the wrapper method sends the transaction through the handle and
\* the node accepts it.
Submitted(c) ==
  LET call == apiCalls[c] IN
  /\ call.pc = "loading"
  /\ call.method \in Writes
  /\ calls[call.load].pc = "returned"
  /\ txs' = Append(txs, [method |-> wrapperMethod(call.method)[2],
                         token |-> handles[calls[call.load].handle].address,
                         value |-> call.args.value, status |-> "pending"])
  /\ apiCalls' = [apiCalls EXCEPT ![c].pc = "submitted", ![c].remoteCalls = @ + 1,
                                  ![c].tx = Len(txs) + 1]
  /\ UNCHANGED <<cache, handles, calls, chain>>

\* The write waits for its transaction to be mined.
awaitMined(tx) == txs[tx].status = "mined"

\* Whether a write whose transaction tx the node accepted may return now.
mayReturn(tx) == TRUE

\* A write returns the hash of the transaction it sent.
Returned(c) ==
  LET call == apiCalls[c] IN
  /\ call.pc = "submitted"
  /\ mayReturn(call.tx)
  /\ apiCalls' = [apiCalls EXCEPT ![c].pc = "done", ![c].result = <<"txHash", call.tx>>]
  /\ UNCHANGED <<cache, handles, calls, chain, txs>>

\* The chain includes a pending transaction in a block.
Mined(t) ==
  /\ txs[t].status = "pending"
  /\ txs' = [txs EXCEPT ![t].status = "mined"]
  /\ chain' = mined(txs[t])
  /\ UNCHANGED <<cache, handles, calls, apiCalls>>

Init ==
  /\ cache = [w \in ContractWrappers |-> <<>>]
  /\ handles = <<>>
  /\ calls = <<>>
  /\ apiCalls = <<>>
  /\ chain = InitChain
  /\ txs = <<>>

Next ==
  \/ \E kind \in LoadKinds, address \in LoadAddresses,
        transactionOptions \in LoadOptions :
          Load(DirectWrapper, kind, address, transactionOptions)
  \/ \E c \in DOMAIN calls : AtResolves(c)
  \/ \E c \in DOMAIN calls, e \in TransportErrors : AtRejects(c, e)

Spec == Init /\ [][Next]_vars

(* ------------------------ calls of the facade -------------------------- *)

Arrays(S) == UNION {[1..n -> S] : n \in 0..MaxTokens}
Values == {1}

\* The arguments of a call of `method`: token addresses from T, the other
\* addresses from U.
ArgsOf(method, T, U) ==
  CASE method = "getBalanceOfAsync" -> [tokenAddress : T, userAddress : U]
    [] method = "getBalancesOfAsync" -> [tokenAddresses : Arrays(T), userAddress : U]
    [] method \in {"getNameAsync", "getSymbolAsync", "getTotalSupplyAsync",
                   "getDecimalsAsync"} -> [tokenAddress : T]
    [] method = "getTotalSuppliesAsync" -> [tokenAddresses : Arrays(T)]
    [] method = "getAllowanceAsync" -> [tokenAddress : T, ownerAddress : U, spenderAddress : U]
    [] method = "transferAsync" -> [tokenAddress : T, to : U, value : Values]
    [] method = "transferFromAsync" -> [tokenAddress : T, from : U, to : U, value : Values]
    [] method = "approveAsync" -> [tokenAddress : T, spenderAddress : U, value : Values]

\* The caller awaits each call before it makes the next.
idle == \A c \in DOMAIN apiCalls : apiCalls[c].pc \in {"done", "rejected"}

\* What runs between the call of a public method and its return.
Facade ==
  \/ \E c \in DOMAIN calls : AtResolves(c)
  \/ \E c \in DOMAIN calls, e \in TransportErrors : AtRejects(c, e)
  \/ \E c \in DOMAIN apiCalls : LoadFailed(c)
  \/ \E c \in DOMAIN apiCalls : Answered(c)
  \/ \E c \in DOMAIN apiCalls, e \in TransportErrors : RemoteFails(c, e)
  \/ \E c \in DOMAIN apiCalls : Submitted(c)
  \/ \E c \in DOMAIN apiCalls : Returned(c)
  \/ \E t \in DOMAIN txs : Mined(t)

\* Every public method, on well-formed addresses, while the chain mines.
ApiNext ==
  \/ \E a \in Apis, method \in Methods :
       \E args \in ArgsOf(method, {"TOKEN_A"}, {"USER"}) :
         Len(apiCalls) < MaxApiCalls /\ idle /\ Invoke(a, method, args)
  \/ Facade

ApiSpec == Init /\ [][ApiNext]_vars

\* Reads of both tokens, one by one and in a batch, and a transfer that
\* changes what they read.
ReadWorkload ==
  {<<"getBalanceOfAsync", [tokenAddress |-> t, userAddress |-> "USER"]>> : t \in Tokens}
    \cup { <<"getBalancesOfAsync",
             [tokenAddresses |-> <<"TOKEN_A", "TOKEN_B">>, userAddress |-> "USER"]>>,
           <<"getTotalSuppliesAsync", [tokenAddresses |-> <<"TOKEN_A", "TOKEN_B">>]>>,
           <<"transferAsync", [tokenAddress |-> "TOKEN_A", to |-> "USER", value |-> 1]>> }

ReadNext ==
  \/ \E a \in Apis, call \in ReadWorkload :
       Len(apiCalls) < MaxReads /\ idle /\ Invoke(a, call[1], call[2])
  \/ Facade

ReadSpec == Init /\ [][ReadNext]_vars

\* One call of a public method, on well-formed and malformed addresses.
ValidationNext ==
  \/ \E a \in Apis, method \in Methods :
       \E args \in ArgsOf(method, Tokens \cup Malformed, {"USER"} \cup Malformed) :
         apiCalls = <<>> /\ Invoke(a, method, args)
  \/ Facade

ValidationSpec == Init /\ [][ValidationNext]_vars

(* ------------- RebalancingSetIssuanceModule: issue and redeem ---------- *)

\* calls of issueRebalancingSet / redeemRebalancingSet
MaxIssuanceCalls == 3
\* largest rebalancing Set quantity issued or redeemed
MaxQuantity == 4

\* The base Set of the tests: two components, each with the same unit, and a
\* natural unit of its own.  In the tests the quantity of base Set behind the
\* rebalancing Set is either a whole number of natural units or a whole number
\* and a half; a natural unit of 2 keeps to these two cases.
baseSetComponents == {1, 2}
baseSetNaturalUnit == 2
baseSetComponentUnit == 2

\* createDefaultRebalancingSetTokenAsync(..., rebalancingUnitShares) and the
\* natural unit every rebalancing Set is created with.
rebalancingUnitShares == 1
DEFAULT_REBALANCING_NATURAL_UNIT == 2

\* What the caller holds before the first call.
InitialComponentBalance == 6
InitIssuance ==
  [ component |-> [k \in baseSetComponents |-> InitialComponentBalance],
    baseSet |-> 0, vaultBaseSet |-> 0, rebalancingSet |-> 0 ]

\* A rebalancing Set is issued and redeemed in multiples of its natural unit.
Quantities == {q \in 1..MaxQuantity : q % DEFAULT_REBALANCING_NATURAL_UNIT = 0}

\* subjectRebalancingSetQuantity.mul(rebalancingUnitShares).div(DEFAULT_REBALANCING_NATURAL_UNIT)
baseSetIssueQuantity(quantity) ==
  (quantity * rebalancingUnitShares) \div DEFAULT_REBALANCING_NATURAL_UNIT

\* No base Set handed back.
noChange(quantity) == 0

\* baseSetIssueQuantity.mod(baseSetNaturalUnit)
baseSetChange(quantity) == baseSetIssueQuantity(quantity) % baseSetNaturalUnit

\* quantity-of-base-Set .mul(baseSetComponentUnit).div(baseSetNaturalUnit)
componentQuantity(baseSetQuantity) ==
  (baseSetQuantity * baseSetComponentUnit) \div baseSetNaturalUnit

\* The change goes to the caller's wallet, or to the caller's Vault balance.
withChange(state, change, keepChangeInVault) ==
  IF keepChangeInVault
    THEN [state EXCEPT !.vaultBaseSet = @ + change]
    ELSE [state EXCEPT !.baseSet = @ + change]

\* issueRebalancingSet: the components of the base Set behind `quantity` and
\* behind the change leave the caller, who gets the rebalancing Set and the
\* change.  The transaction reverts when the caller has not got the components.
issued(quantity, keepChangeInVault) ==
  LET change == baseSetChange(quantity)
      used == componentQuantity(baseSetIssueQuantity(quantity) + change)
  IN withChange(
       [chain EXCEPT !.component = [k \in baseSetComponents |-> @[k] - used],
                     !.rebalancingSet = @ + quantity],
       change, keepChangeInVault)

canIssue(quantity) ==
  \A k \in baseSetComponents :
    chain.component[k] >=
      componentQuantity(baseSetIssueQuantity(quantity) + baseSetChange(quantity))

\* redeemRebalancingSet: the rebalancing Set leaves the caller, who gets the
\* components of the whole natural units of base Set behind it, and the rest
\* of the base Set as change.  The transaction reverts when the caller has
\* not got the rebalancing Set.
redeemed(quantity, keepChangeInVault) ==
  LET change == baseSetChange(quantity)
      back == componentQuantity(baseSetIssueQuantity(quantity) - change)
  IN withChange(
       [chain EXCEPT !.component = [k \in baseSetComponents |-> @[k] + back],
                     !.rebalancingSet = @ - quantity],
       change, keepChangeInVault)

canRedeem(quantity) == chain.rebalancingSet >= quantity

issuanceCall(method, quantity, keepChangeInVault, ok) ==
  [ method |-> method, quantity |-> quantity,
    keepChangeInVault |-> keepChangeInVault,
    pc |-> IF ok THEN "done" ELSE "rejected",
    before |-> chain, after |-> chain' ]

IssueRebalancingSet(quantity, keepChangeInVault) ==
  /\ Len(apiCalls) < MaxIssuanceCalls
  /\ chain' = IF canIssue(quantity) THEN issued(quantity, keepChangeInVault) ELSE chain
  /\ apiCalls' = Append(apiCalls,
       issuanceCall("issueRebalancingSet", quantity, keepChangeInVault, canIssue(quantity)))
  /\ UNCHANGED <<cache, handles, calls, txs>>

RedeemRebalancingSet(quantity, keepChangeInVault) ==
  /\ Len(apiCalls) < MaxIssuanceCalls
  /\ chain' = IF canRedeem(quantity) THEN redeemed(quantity, keepChangeInVault) ELSE chain
  /\ apiCalls' = Append(apiCalls,
       issuanceCall("redeemRebalancingSet", quantity, keepChangeInVault, canRedeem(quantity)))
  /\ UNCHANGED <<cache, handles, calls, txs>>

IssuanceInit ==
  /\ cache = [w \in ContractWrappers |-> <<>>]
  /\ handles = <<>>
  /\ calls = <<>>
  /\ apiCalls = <<>>
  /\ chain = InitIssuance
  /\ txs = <<>>

IssuanceNext ==
  \/ \E quantity \in Quantities, keepChangeInVault \in BOOLEAN :
       IssueRebalancingSet(quantity, keepChangeInVault)
  \/ \E quantity \in Quantities, keepChangeInVault \in BOOLEAN :
       RedeemRebalancingSet(quantity, keepChangeInVault)

IssuanceSpec == IssuanceInit /\ [][IssuanceNext]_vars

(* ------------------- RebalancingAPI and its Set token ------------------ *)

\* latest time on the clock
MaxTime == 4

\* The accounts and contracts of the tests.
MANAGER == "ACCOUNTS[1]"
DEFAULT_ACCOUNT == "ACCOUNTS[0]"
Accounts == {DEFAULT_ACCOUNT, MANAGER, "ACCOUNTS[2]"}
REBALANCING_SET == "rebalancingSetToken"
CURRENT_SET == "currentSetToken"
NEXT_SET == "nextSetToken"
NULL_ADDRESS == "0x0"
\* A proposed next Set is a Set of Core, or an account (ACCOUNTS[3]).
ProposedSets == {NEXT_SET, "ACCOUNTS[3]"}
ValidSets == {CURRENT_SET, NEXT_SET}
\* A proposed price curve is one added to Core, or an account (ACCOUNTS[4]).
ProposedCurves == {"priceCurve", "ACCOUNTS[4]"}
ValidCurves == {"priceCurve"}

\* Time is counted in days: rebalanceInterval, proposalPeriod and the
\* auction's time to pivot are each one day.
ONE_DAY == 1
rebalanceInterval == ONE_DAY
proposalPeriod == ONE_DAY
auctionTimeToPivot == ONE_DAY

\* ether(7) of the current Set issued, and all of it used to issue the
\* rebalancing Set to DEFAULT_ACCOUNT; the auction's minimum bid.
IssuedQuantity == 4
MinimumBid == 2
BidQuantities == {2, 3, 4, 6}

\* The manager contracts, by ManagerType; 4 is no type proposeAsync knows.
ManagerTypes == {"BTCETH", "BTCDAI", "ETHDAI"}
UnknownManagerType == "4"
managerContract(managerType) ==
  CASE managerType = "BTCETH" -> "btcethRebalancingManager"
    [] managerType = "BTCDAI" -> "btcDaiRebalancingManager"
    [] managerType = "ETHDAI" -> "ethDaiRebalancingManager"
    [] OTHER -> NULL_ADDRESS
\* The asset whose share of the Set's value each manager tracks, in percent,
\* and the bounds it was deployed with.
trackedAsset(managerType) == IF managerType = "BTCETH" THEN "BTC" ELSE "DAI"
maximumLowerThreshold(managerType) == IF managerType = "BTCETH" THEN 48 ELSE 47
minimumUpperThreshold(managerType) == IF managerType = "BTCETH" THEN 52 ELSE 55
\* The tracked share the oracle prices give: at deployment, and after
\* updateMedianizerPriceAsync.
InitialAllocation == 52
Allocations == {42, 47, 48, 49, 52, 54, 55}

\* The rebalancing Set token as createDefaultRebalancingSetTokenAsync and the
\* two issues leave it, and the clock (the tests move the client's clock and
\* the chain's together).
InitRebalancing ==
  [ rebalanceState |-> "Default",
    manager |-> MANAGER,
    currentSet |-> CURRENT_SET,
    nextSet |-> NULL_ADDRESS,
    auctionLibrary |-> NULL_ADDRESS,
    lastRebalanceTimestamp |-> 0,
    proposalStartTime |-> 0,
    auctionStartTime |-> 0,
    minimumBid |-> 0,
    remainingCurrentSets |-> 0,
    bids |-> 0,
    balance |-> IssuedQuantity,
    collateral |-> IssuedQuantity,
    ownerVault |-> 0,
    allocation |-> InitialAllocation,
    time |-> 0 ]

(* The errors the assertions of RebalancingAPI raise, as the texts the tests
   expect, cut at the values they hold. *)
mustBeInState(address, state) ==
  << "Rebalancing token at ", address, " must be in ", state,
     " state to call that function." >>
inRebalancingState(address) ==
  << "Rebalancing token at ", address, " is currently in rebalancing state.",
     " Issue, Redeem, and propose functionality is not available during this time" >>
notManager(caller) ==
  << "Caller ", caller, " is not the manager of this Rebalancing Set Token." >>
notValidSet(address) ==
  << "Contract at ", address, " is not a valid Set token address." >>
notRecognized(address) ==
  << "Proposed ", address, " is not recognized by Core." >>
tooSoon(nextAvailable) ==
  << "Attempting to rebalance too soon. Rebalancing next ",
     "available on ", nextAvailable >>
notEnoughRebalanced(minimumBid, remaining) ==
  << "In order to settle rebalance there must be less than current ", minimumBid,
     " sets remaining to be rebalanced. There are currently ", remaining,
     " remaining for rebalance." >>
pivotNotReached(pivotTime) ==
  << "Pivot time not yet reached. Pivot time starts at ", pivotTime >>
noRemainingBids(address) ==
  << "Auction has no remaining bids. Cannot drawdown Set at ", address, "." >>
exceedsRemaining(quantity, remaining) ==
  << "The submitted bid quantity, ", quantity,
     ", exceeds the remaining current sets,", " ", remaining, "." >>
notMultiple(quantity, minimumBid) ==
  << "The submitted bid quantity, ", quantity,
     ", must be a multiple of the minimumBid, ", minimumBid, "." >>
\* The transaction reverted on the chain.
reverted == << "revert" >>

\* Any state will do.
anyState(state, required) == {}

\* The assertion that the token is in the state the operation requires.
isInState(state, required) ==
  IF state # required THEN {mustBeInState(REBALANCING_SET, required)} ELSE {}

\* Never too soon.
anyTime(since, period) == {}

\* The assertion that `period` has passed since `since`.
sufficientTime(since, period) ==
  IF chain.time < since + period THEN {tooSoon(since + period)} ELSE {}

\* Any caller will do.
anyCaller(caller) == {}

\* The assertion that the caller is the token's manager.
isManager(caller) ==
  IF caller # chain.manager THEN {notManager(caller)} ELSE {}

\* Any quantity may be bid.
anyBid(quantity) == {}

\* The assertions on a bid quantity.
isValidBid(quantity) ==
  (IF quantity > chain.remainingCurrentSets
     THEN {exceedsRemaining(quantity, chain.remainingCurrentSets)} ELSE {})
  \cup (IF quantity % chain.minimumBid # 0
          THEN {notMultiple(quantity, chain.minimumBid)} ELSE {})

\* What an operation leaves in apiCalls: the call, and the token before it.
rebalancingCall(method, args, caller, error, result) ==
  << [ method |-> method, args |-> args, caller |-> caller,
       pc |-> IF error = <<>> THEN "done" ELSE "rejected",
       error |-> error, result |-> result, before |-> chain ] >>

\* An operation whose assertions raise the errors in `errors` (any one of
\* them may come first), and that leaves the token as `after` when none does.
Operation(method, args, caller, errors, after, result) ==
  /\ \/ /\ errors = {}
        /\ chain' = after
        /\ apiCalls' = rebalancingCall(method, args, caller, <<>>, result)
     \/ \E e \in errors :
          /\ chain' = chain
          /\ apiCalls' = rebalancingCall(method, args, caller, e, <<>>)
  /\ UNCHANGED <<cache, handles, calls, txs>>

(* Token flows.  getBidPrice of the token answers two arrays of units, one
   entry per address of getCombinedTokenArray; the API answers, for each
   array, the components whose unit is not zero. *)
combinedTokenArray == << "component1", "component2", "component3", "component4" >>

\* Each unit with the address at its own index.
withAddresses(addresses, units) ==
  [i \in 1..Len(units) |-> [address |-> addresses[i], unit |-> units[i]]]

\* The units left after the zeros are dropped, each with the address at its
\* new index.
addressesAfterFilter(addresses, units) ==
  withAddresses(addresses, SelectSeq(units, LAMBDA u : u # 0))

\* The components of one flow: those with a unit other than zero.
tokenFlowDetails(addresses, units) ==
  SelectSeq(withAddresses(addresses, units), LAMBDA c : c.unit # 0)

\* getBidPrice: the components of the current Set flow out, those of the next
\* Set flow in, in proportion to the bid.
getBidPrice(quantity) ==
  LET n == quantity \div MinimumBid
  IN  [ inflow |-> << 0, 0, n, n >>, outflow |-> << n, n, 0, 0 >> ]

\* What getBidPriceAsync makes of the two arrays.
tokenFlowsOf(bidPrice) ==
  [ inflow |-> tokenFlowDetails(combinedTokenArray, bidPrice.inflow),
    outflow |-> tokenFlowDetails(combinedTokenArray, bidPrice.outflow) ]

tokenFlows(quantity) == tokenFlowsOf(getBidPrice(quantity))

(* The operations of RebalancingAPI on the token. *)

\* The checks on the caller, the next Set, the time and the price curve, in
\* whatever state the token is.
proposeErrorsInAnyState(nextSet, auctionLibrary, caller) ==
  isManager(caller)
  \cup (IF nextSet \notin ValidSets THEN {notValidSet(nextSet)} ELSE {})
  \cup sufficientTime(chain.lastRebalanceTimestamp, rebalanceInterval)
  \cup (IF auctionLibrary \notin ValidCurves
          THEN {notRecognized(auctionLibrary)} ELSE {})

\* The checks of proposeAsync.  A token in Drawdown is past proposing: the
\* contract reverts.
proposeErrors(nextSet, auctionLibrary, caller) ==
  isManager(caller)
  \cup (IF chain.rebalanceState = "Rebalance"
          THEN {inRebalancingState(REBALANCING_SET)} ELSE {})
  \cup (IF chain.rebalanceState = "Drawdown" THEN {reverted} ELSE {})
  \cup (IF nextSet \notin ValidSets THEN {notValidSet(nextSet)} ELSE {})
  \cup sufficientTime(chain.lastRebalanceTimestamp, rebalanceInterval)
  \cup (IF auctionLibrary \notin ValidCurves
          THEN {notRecognized(auctionLibrary)} ELSE {})

proposeAsync(nextSet, auctionLibrary, caller) ==
  Operation("proposeAsync", <<nextSet, auctionLibrary>>, caller,
            proposeErrors(nextSet, auctionLibrary, caller),
            [chain EXCEPT !.rebalanceState = "Proposal",
                          !.nextSet = nextSet,
                          !.auctionLibrary = auctionLibrary,
                          !.proposalStartTime = chain.time],
            <<>>)

\* Nothing stands in the way.
noErrors == {}

startRebalanceErrors ==
  LET gate == isInState(chain.rebalanceState, "Proposal")
  IN  IF gate # {} THEN gate
      ELSE sufficientTime(chain.proposalStartTime, proposalPeriod)

startRebalanceAsync(caller) ==
  Operation("startRebalanceAsync", <<>>, caller, startRebalanceErrors,
            [chain EXCEPT !.rebalanceState = "Rebalance",
                          !.auctionStartTime = chain.time,
                          !.minimumBid = MinimumBid,
                          !.remainingCurrentSets = chain.collateral,
                          !.bids = 0],
            <<>>)

\* The check on what remains, in whatever state the token is.
ungatedSettleErrors ==
  IF chain.remainingCurrentSets >= chain.minimumBid
    THEN {notEnoughRebalanced(chain.minimumBid, chain.remainingCurrentSets)}
    ELSE {}

settleRebalanceErrors ==
  LET gate == isInState(chain.rebalanceState, "Rebalance")
  IN  IF gate # {} THEN gate
      ELSE IF chain.remainingCurrentSets >= chain.minimumBid
             THEN {notEnoughRebalanced(chain.minimumBid, chain.remainingCurrentSets)}
             ELSE {}

\* The rebalance is closed and the token keeps its current Set.
settleKeepingCurrentSet(caller) ==
  Operation("settleRebalanceAsync", <<>>, caller, settleRebalanceErrors,
            [chain EXCEPT !.rebalanceState = "Default",
                          !.lastRebalanceTimestamp = chain.time],
            <<>>)

settleRebalanceAsync(caller) ==
  Operation("settleRebalanceAsync", <<>>, caller, settleRebalanceErrors,
            [chain EXCEPT !.rebalanceState = "Default",
                          !.currentSet = chain.nextSet,
                          !.lastRebalanceTimestamp = chain.time],
            <<>>)

\* The check of the state alone.
endFailedAuctionGate == isInState(chain.rebalanceState, "Rebalance")

endFailedAuctionErrors ==
  LET gate == isInState(chain.rebalanceState, "Rebalance")
  IN  IF gate # {} THEN gate
      ELSE (IF chain.time < chain.auctionStartTime + auctionTimeToPivot
              THEN {pivotNotReached(chain.auctionStartTime + auctionTimeToPivot)}
              ELSE {})
           \cup (IF chain.remainingCurrentSets < chain.minimumBid
                   THEN {noRemainingBids(REBALANCING_SET)} ELSE {})

\* The failed auction always ends in Default.
endInDefault(caller) ==
  Operation("endFailedAuctionAsync", <<>>, caller, endFailedAuctionErrors,
            [chain EXCEPT !.rebalanceState = "Default",
                          !.lastRebalanceTimestamp = chain.time],
            <<>>)

\* With no bid placed the token goes back to Default with its current Set;
\* with a bid placed it goes to Drawdown.
endFailedAuctionAsync(caller) ==
  Operation("endFailedAuctionAsync", <<>>, caller, endFailedAuctionErrors,
            [chain EXCEPT !.rebalanceState =
                             IF chain.bids = 0 THEN "Default" ELSE "Drawdown",
                          !.lastRebalanceTimestamp = chain.time],
            <<>>)

bidErrors(quantity) ==
  LET gate == isInState(chain.rebalanceState, "Rebalance")
  IN  IF gate # {} THEN gate ELSE isValidBid(quantity)

bidAsync(quantity, caller) ==
  Operation("bidAsync", <<quantity>>, caller, bidErrors(quantity),
            [chain EXCEPT !.remainingCurrentSets = @ - quantity,
                          !.bids = @ + quantity],
            <<>>)

getBidPriceAsync(quantity, caller) ==
  Operation("getBidPriceAsync", <<quantity>>, caller, bidErrors(quantity),
            chain, tokenFlows(quantity))

getRebalanceDetailsAsync(caller) ==
  Operation("getRebalanceDetailsAsync", <<>>, caller,
            isInState(chain.rebalanceState, "Rebalance"), chain,
            [ state |-> chain.rebalanceState,
              remainingCurrentSet |-> chain.remainingCurrentSets,
              minimumBid |-> chain.minimumBid,
              startingCurrentSetAmount |-> chain.collateral ])

getRebalancingSetAuctionRemainingCurrentSets(caller) ==
  Operation("getRebalancingSetAuctionRemainingCurrentSets", <<>>, caller,
            isInState(chain.rebalanceState, "Rebalance"), chain,
            chain.remainingCurrentSets)

\* The collateral is credited and the caller's tokens are left alone.
creditWithoutBurn(caller) ==
  Operation("redeemFromFailedRebalanceAsync", <<>>, caller,
            isInState(chain.rebalanceState, "Drawdown"),
            [chain EXCEPT !.ownerVault = @ + chain.collateral,
                          !.collateral = 0],
            <<>>)

\* The caller, who holds the whole supply, burns it and is credited the
\* token's collateral in the Vault.
redeemFromFailedRebalanceAsync(caller) ==
  Operation("redeemFromFailedRebalanceAsync", <<>>, caller,
            isInState(chain.rebalanceState, "Drawdown"),
            [chain EXCEPT !.balance = 0,
                          !.ownerVault = @ + chain.collateral,
                          !.collateral = 0],
            <<>>)

updateManagerAsync(newManager, caller) ==
  Operation("updateManagerAsync", <<newManager>>, caller, isManager(caller),
            [chain EXCEPT !.manager = newManager], <<>>)

(* RebalancingManagerAPI.proposeAsync: anyone may ask the manager contract of
   a token to propose, when the tracked share has left its bounds. *)
managerTypeNotRecognized == << "Passed manager type is not recognized." >>
insideBounds(asset, allocation, lower, upper) ==
  << "Current ", asset, " allocation ", allocation,
     "% must be outside allocation bounds ", lower, " and ", upper, "." >>

\* The price trigger is always met.
alwaysTriggered(managerType) == {}

\* The price trigger: the share is below the lower bound, or has reached the
\* upper one.
priceTrigger(managerType) ==
  IF /\ chain.allocation >= maximumLowerThreshold(managerType)
     /\ chain.allocation < minimumUpperThreshold(managerType)
    THEN {insideBounds(trackedAsset(managerType), chain.allocation,
                       maximumLowerThreshold(managerType),
                       minimumUpperThreshold(managerType))}
    ELSE {}

\* A manager contract proposes only for the token it manages.
managerProposeErrors(managerType) ==
  IF managerType \notin ManagerTypes THEN {managerTypeNotRecognized}
  ELSE LET gate == isInState(chain.rebalanceState, "Default")
       IN  IF gate # {} THEN gate
           ELSE sufficientTime(chain.lastRebalanceTimestamp, rebalanceInterval)
                \cup priceTrigger(managerType)
                \cup (IF chain.manager # managerContract(managerType)
                        THEN {reverted} ELSE {})

managerProposeAsync(managerType, caller) ==
  Operation("RebalancingManagerAPI.proposeAsync",
            <<managerType, managerContract(managerType), REBALANCING_SET>>,
            caller, managerProposeErrors(managerType),
            [chain EXCEPT !.rebalanceState = "Proposal",
                          !.nextSet = NEXT_SET,
                          !.auctionLibrary = "priceCurve",
                          !.proposalStartTime = chain.time],
            <<>>)

\* updateMedianizerPriceAsync: the oracle's price moves the tracked share.
updateMedianizerPriceAsync(allocation) ==
  /\ chain.allocation # allocation
  /\ chain' = [chain EXCEPT !.allocation = allocation]
  /\ UNCHANGED <<cache, handles, calls, apiCalls, txs>>

\* increaseChainTimeAsync and timeKeeper.freeze: a day passes.
increaseChainTime ==
  /\ chain.time < MaxTime
  /\ chain' = [chain EXCEPT !.time = @ + ONE_DAY]
  /\ UNCHANGED <<cache, handles, calls, apiCalls, txs>>

\* The token is managed by an account, or by the BTCETH manager contract.
RebalancingInit ==
  /\ cache = [w \in ContractWrappers |-> <<>>]
  /\ handles = <<>>
  /\ calls = <<>>
  /\ apiCalls = <<>>
  /\ \E m \in {MANAGER, managerContract("BTCETH")} :
       chain = [InitRebalancing EXCEPT !.manager = m]
  /\ txs = <<>>

RebalancingNext ==
  \/ \E n \in ProposedSets, l \in ProposedCurves, c \in {MANAGER, DEFAULT_ACCOUNT} :
       proposeAsync(n, l, c)
  \/ startRebalanceAsync(DEFAULT_ACCOUNT)
  \/ settleRebalanceAsync(DEFAULT_ACCOUNT)
  \/ endFailedAuctionAsync(DEFAULT_ACCOUNT)
  \/ \E q \in BidQuantities : bidAsync(q, DEFAULT_ACCOUNT)
  \/ \E q \in BidQuantities : getBidPriceAsync(q, DEFAULT_ACCOUNT)
  \/ getRebalanceDetailsAsync(DEFAULT_ACCOUNT)
  \/ getRebalancingSetAuctionRemainingCurrentSets(DEFAULT_ACCOUNT)
  \/ redeemFromFailedRebalanceAsync(DEFAULT_ACCOUNT)
  \/ \E m \in Accounts, c \in Accounts : updateManagerAsync(m, c)
  \/ \E t \in {"BTCETH", UnknownManagerType} : managerProposeAsync(t, DEFAULT_ACCOUNT)
  \/ increaseChainTime

RebalancingSpec == RebalancingInit /\ [][RebalancingNext]_vars

(* The manager contracts alone: a token managed by each, and the oracle. *)
ManagerInit ==
  /\ cache = [w \in ContractWrappers |-> <<>>]
  /\ handles = <<>>
  /\ calls = <<>>
  /\ apiCalls = <<>>
  /\ \E t \in ManagerTypes :
       chain = [InitRebalancing EXCEPT !.manager = managerContract(t)]
  /\ txs = <<>>

ManagerNext ==
  \/ \E t \in ManagerTypes \cup {UnknownManagerType} :
       managerProposeAsync(t, DEFAULT_ACCOUNT)
  \/ \E a \in Allocations : updateMedianizerPriceAsync(a)
  \/ startRebalanceAsync(DEFAULT_ACCOUNT)
  \/ increaseChainTime

ManagerSpec == ManagerInit /\ [][ManagerNext]_vars

(* getBidPriceAsync over any two arrays of units the token may answer. *)
MaxUnit == 2
UnitArrays == [1..Len(combinedTokenArray) -> 0..MaxUnit]

\* The token in Rebalance, with some bid price.
FlowsInit ==
  /\ cache = [w \in ContractWrappers |-> <<>>]
  /\ handles = <<>>
  /\ calls = <<>>
  /\ apiCalls = <<>>
  /\ \E inflow \in UnitArrays, outflow \in UnitArrays :
       chain = [inflow |-> inflow, outflow |-> outflow]
  /\ txs = <<>>

\* getBidPriceAsync, once.
fetchTokenFlows ==
  /\ apiCalls = <<>>
  /\ apiCalls' = << [ method |-> "getBidPriceAsync", pc |-> "done",
                      result |-> tokenFlowsOf(chain) ] >>
  /\ UNCHANGED <<cache, handles, calls, chain, txs>>

FlowsNext == fetchTokenFlows

FlowsSpec == FlowsInit /\ [][FlowsNext]_vars

(* ------------------------------- claims -------------------------------- *)


sameLoad(x, y) == x.w = y.w /\ x.kind = y.kind /\ x.address = y.address

\* C1: once a load of address A through a loader has returned handle H, a call
\* of the same loader with A that starts later returns H at once, from the
\* cache, and constructs nothing.
C1_LaterLoadReturnsSameHandle ==
  [][\A c1 \in DOMAIN calls :
       ( /\ Len(calls') = Len(calls) + 1
         /\ calls[c1].pc = "returned"
         /\ sameLoad(calls[c1], calls'[Len(calls')]) )
       => /\ calls'[Len(calls')].pc = "returned"
          /\ calls'[Len(calls')].handle = calls[c1].handle]_vars

\* C2: however the load calls of one loader and one address interleave, the
\* handle is constructed (and the cache entry written) at most once, and every
\* caller gets the same handle.
C2_ConstructedAtMostOnce ==
  /\ \A h1, h2 \in DOMAIN handles :
       ( /\ handles[h1].w = handles[h2].w
         /\ handles[h1].kind = handles[h2].kind
         /\ handles[h1].address = handles[h2].address ) => h1 = h2
  /\ \A c1, c2 \in DOMAIN calls :
       (sameLoad(calls[c1], calls[c2]) /\ calls[c1].pc = "returned"
          /\ calls[c2].pc = "returned")
       => calls[c1].handle = calls[c2].handle

\* C3: a load of kind K at address A returns a handle constructed for kind K;
\* the handles loadVaultAsync(A) and loadTransferProxyAsync(A) return differ.
C3_KeyedByKindAndAddress ==
  /\ \A c \in DOMAIN calls :
       calls[c].pc = "returned" => handles[calls[c].handle].kind = calls[c].kind
  /\ \A c1, c2 \in DOMAIN calls :
       ( /\ calls[c1].kind = "Vault" /\ calls[c2].kind = "TransferProxy"
         /\ calls[c1].address = calls[c2].address
         /\ calls[c1].pc = "returned" /\ calls[c2].pc = "returned" )
       => calls[c1].handle # calls[c2].handle

\* The calls that went through a ProtocolViewerWrapper and got its handle.
viewerReads ==
  {c \in DOMAIN apiCalls :
     /\ wrapperMethod(apiCalls[c].method)[1] = "ProtocolViewerWrapper"
     /\ apiCalls[c].load # 0
     /\ calls[apiCalls[c].load].pc = "returned"}

AddressFields ==
  {"tokenAddress", "userAddress", "ownerAddress", "spenderAddress", "from", "to"}

\* Every address-typed argument of a call, under the name it is reported by.
namedAddressArguments(args) ==
  {<<f, args[f]>> : f \in DOMAIN args \cap AddressFields}
    \cup (IF "tokenAddresses" \in DOMAIN args
            THEN {<<"tokenAddress", args.tokenAddresses[i]>> :
                    i \in 1..Len(args.tokenAddresses)}
            ELSE {})

wellFormed(a) == matchesAddressPattern(AddressText(a))

\* C6: a call of a public method with a malformed address among its arguments
\* is rejected with a validation error, and no wrapper method, no loader and no
\* remote call has run for it.
C6_MalformedAddressRejectedLocally ==
  \A c \in DOMAIN apiCalls :
    (\E na \in namedAddressArguments(apiCalls[c].args) : ~wellFormed(na[2]))
    => /\ apiCalls[c].pc = "rejected"
       /\ apiCalls[c].error.type = "validation"
       /\ apiCalls[c].wrapperCalls = 0
       /\ apiCalls[c].remoteCalls = 0
       /\ apiCalls[c].load = 0
       /\ \A l \in DOMAIN calls : calls[l].by # c

C6_MalformedElementRejected ==
  \E c \in DOMAIN apiCalls :
    /\ apiCalls[c].method = "getBalancesOfAsync"
    /\ apiCalls[c].args.userAddress = "USER"
    /\ apiCalls[c].args.tokenAddresses = <<"TOKEN_A", "TOO_SHORT">>
    /\ apiCalls[c].pc = "rejected"

\* C7: the validation error names an address-typed argument of the call and
\* holds that argument's malformed value; an element of tokenAddresses is
\* reported under the name tokenAddress.
C7_ErrorNamesArgumentAndValue ==
  \A c \in DOMAIN apiCalls :
    apiCalls[c].error.type = "validation"
    => \E na \in namedAddressArguments(apiCalls[c].args) :
         /\ ~wellFormed(na[2])
         /\ apiCalls[c].error.variableName = na[1]
         /\ apiCalls[c].error.encountered = na[2]
         /\ apiCalls[c].error.message[2] = na[1]
         /\ apiCalls[c].error.message[5] = na[2]

C7_ElementReportedAsTokenAddress ==
  \E c \in DOMAIN apiCalls :
    /\ apiCalls[c].method = "getTotalSuppliesAsync"
    /\ apiCalls[c].args.tokenAddresses = <<"TOKEN_A", "NON_HEX">>
    /\ apiCalls[c].error.type = "validation"
    /\ apiCalls[c].error.variableName = "tokenAddress"
    /\ apiCalls[c].error.encountered = "NON_HEX"

\* C8: a call issues its remote call at most once, and when the remote call or
\* the loading of the handle fails the call is rejected with that very error.
C8_FireOnce ==
  \A c \in DOMAIN apiCalls :
    /\ apiCalls[c].remoteCalls <= 1
    /\ apiCalls[c].fault.type # "none"
         => /\ apiCalls[c].pc = "rejected"
            /\ apiCalls[c].error = apiCalls[c].fault
    /\ (apiCalls[c].load # 0 /\ apiCalls[c].pc # "loading"
          /\ calls[apiCalls[c].load].pc = "rejected")
         => /\ apiCalls[c].pc = "rejected"
            /\ apiCalls[c].error = remoteError(calls[apiCalls[c].load].error)
            /\ apiCalls[c].remoteCalls = 0

C8_RemoteCallFailed ==
  \E c \in DOMAIN apiCalls :
    /\ apiCalls[c].method \in {"getBalancesOfAsync", "transferAsync"}
    /\ apiCalls[c].fault.type = "remote"
    /\ apiCalls[c].remoteCalls = 1
    /\ apiCalls[c].pc = "rejected"

\* C9: a write whose transaction the node accepted can return at once, mined
\* or not, and what it returns is the hash of the transaction it sent.
C9_ReturnsWithoutConfirmation ==
  \A c \in DOMAIN apiCalls :
    apiCalls[c].method \in Writes
    => /\ apiCalls[c].pc = "submitted" => ENABLED Returned(c)
       /\ apiCalls[c].pc = "done"
            => /\ apiCalls[c].tx \in DOMAIN txs
               /\ apiCalls[c].result = <<"txHash", apiCalls[c].tx>>
               /\ txs[apiCalls[c].tx].method = wrapperMethod(apiCalls[c].method)[2]
               /\ txs[apiCalls[c].tx].token = apiCalls[c].args.tokenAddress

C9_ReturnedWhilePending ==
  \E c \in DOMAIN apiCalls :
    /\ apiCalls[c].method \in Writes
    /\ apiCalls[c].pc = "done"
    /\ txs[apiCalls[c].tx].status = "pending"

\* C10: two reads of the same view with the same arguments, answered with no
\* transaction mined between them, return the same result, whether the handle
\* came from the cache or was constructed for the read.
C10_ReadsRepeat ==
  \A c1, c2 \in DOMAIN apiCalls :
    ( /\ apiCalls[c1].method \notin Writes
      /\ apiCalls[c1].method = apiCalls[c2].method
      /\ apiCalls[c1].args = apiCalls[c2].args
      /\ apiCalls[c1].pc = "done" /\ apiCalls[c2].pc = "done"
      /\ apiCalls[c1].block = apiCalls[c2].block )
    => apiCalls[c1].result = apiCalls[c2].result

C10_MissThenHit ==
  \E c1, c2 \in DOMAIN apiCalls :
    /\ c1 < c2
    /\ apiCalls[c1].method = "getBalanceOfAsync"
    /\ apiCalls[c2].method = "getBalanceOfAsync"
    /\ apiCalls[c1].args = apiCalls[c2].args
    /\ apiCalls[c1].api = apiCalls[c2].api
    /\ apiCalls[c1].pc = "done" /\ apiCalls[c2].pc = "done"
    /\ apiCalls[c1].block = apiCalls[c2].block
    /\ calls[apiCalls[c1].load].constructed
    /\ ~calls[apiCalls[c2].load].constructed
    /\ \E t \in DOMAIN txs : txs[t].status = "mined"

\* The base Set the caller holds, in the wallet and in the Vault.
heldBaseSet(state) == state.baseSet + state.vaultBaseSet

lastCall == apiCalls[1]
called(methods) == apiCalls # <<>> /\ lastCall.method \in methods
tokenAsBefore ==
  [chain EXCEPT !.time = lastCall.before.time,
                !.allocation = lastCall.before.allocation] = lastCall.before

\* The state each state-gated operation requires.
requiredState(method) ==
  CASE method = "startRebalanceAsync" -> "Proposal"
    [] method \in {"settleRebalanceAsync", "endFailedAuctionAsync", "bidAsync"} -> "Rebalance"
    [] method = "redeemFromFailedRebalanceAsync" -> "Drawdown"
    [] method = "RebalancingManagerAPI.proposeAsync" -> "Default"

proposedInsideBounds ==
  /\ called({"RebalancingManagerAPI.proposeAsync"})
  /\ lastCall.args[1] \in ManagerTypes
  /\ lastCall.before.rebalanceState = "Default"
  /\ lastCall.before.allocation > maximumLowerThreshold(lastCall.args[1])
  /\ lastCall.before.allocation < minimumUpperThreshold(lastCall.args[1])

\* C13: RebalancingManagerAPI.proposeAsync for a BTCETH, BTCDAI or ETHDAI
\* manager, when the tracked allocation percentage lies between
\* maximumLowerThreshold and minimumUpperThreshold, is rejected and the Set
\* stays in Default; when the call has nothing else against it (the interval
\* has passed, the manager is the token's) the message is 'Current <asset>
\* allocation <p>% must be outside allocation bounds <lower> and <upper>.'
C13_InsideBoundsRejected ==
  proposedInsideBounds
  => /\ lastCall.pc = "rejected"
     /\ tokenAsBefore
     /\ chain.rebalanceState = "Default"
     /\ ( /\ lastCall.before.time
               >= lastCall.before.lastRebalanceTimestamp + rebalanceInterval
          /\ lastCall.before.manager = lastCall.args[2] )
        => lastCall.error =
             << "Current ", IF lastCall.args[1] = "BTCETH" THEN "BTC" ELSE "DAI",
                " allocation ", lastCall.before.allocation,
                "% must be outside allocation bounds ",
                maximumLowerThreshold(lastCall.args[1]), " and ",
                minimumUpperThreshold(lastCall.args[1]), "." >>

\* The BTCDAI manager was asked to propose at a DAI share of 54%, after the
\* interval, and refused with the message of the bounds.
C13_RefusedAtFiftyFour ==
  /\ proposedInsideBounds
  /\ lastCall.args[1] = "BTCDAI"
  /\ lastCall.before.allocation = 54
  /\ lastCall.pc = "rejected"
  /\ lastCall.error[1] = "Current "
  /\ lastCall.error[6] = 47

\* The place of an address in getCombinedTokenArray.
placeOf(address) == CHOOSE i \in 1..Len(combinedTokenArray) : combinedTokenArray[i] = address

\* A list of flow details is right for an array of units: no entry has unit
\* zero, every entry is a component with its own address and unit, every
\* component with a unit other than zero is there, and the entries are in the
\* order of the array.
rightDetails(details, units) ==
  /\ \A j \in 1..Len(details) :
       /\ details[j].unit # 0
       /\ \E i \in 1..Len(units) :
            details[j] = [address |-> combinedTokenArray[i], unit |-> units[i]]
  /\ \A i \in 1..Len(units) :
       units[i] # 0 => \E j \in 1..Len(details) :
                         details[j].address = combinedTokenArray[i]
  /\ \A j, k \in 1..Len(details) :
       j < k => placeOf(details[j].address) < placeOf(details[k].address)

\* C14: for a token in Rebalance, getBidPriceAsync returns inflow and outflow
\* lists holding exactly the components whose unit is not zero, each with its
\* own address, in the order of the token's arrays, and no entry of unit 0.
C14_ZeroUnitsFiltered ==
  apiCalls # <<>>
  => /\ rightDetails(lastCall.result.inflow, chain.inflow)
     /\ rightDetails(lastCall.result.outflow, chain.outflow)

\* A bid price was fetched whose inflow had a zero before a unit that is not.
C14_ZeroBeforeUnit ==
  /\ apiCalls # <<>>
  /\ chain.inflow[1] = 0
  /\ chain.inflow[2] # 0
  /\ Len(lastCall.result.inflow) = Len(combinedTokenArray) - 1
  /\ chain.outflow[4] = 0

\* C15: startRebalanceAsync succeeds only on a token in Proposal; when it
\* succeeds the token is in Rebalance and its remainingCurrentSets is the
\* issued quantity of the current Set; on a token in Default or in Rebalance
\* it is rejected and the token stays as it was.
C15_StartRebalance ==
  called({"startRebalanceAsync"})
  => /\ lastCall.pc = "done"
          => /\ lastCall.before.rebalanceState = "Proposal"
             /\ chain.rebalanceState = "Rebalance"
             /\ chain.remainingCurrentSets = IssuedQuantity
     /\ lastCall.before.rebalanceState \in {"Default", "Rebalance"}
          => /\ lastCall.pc = "rejected"
             /\ chain.rebalanceState = lastCall.before.rebalanceState
             /\ tokenAsBefore

\* A rebalance was started on a token in Proposal.
C15_Started ==
  /\ called({"startRebalanceAsync"})
  /\ lastCall.pc = "done"
  /\ lastCall.before.rebalanceState = "Proposal"
  /\ chain.rebalanceState = "Rebalance"
  /\ chain.remainingCurrentSets = IssuedQuantity

\* The operations of an auction under way.
AuctionOperations ==
  { "settleRebalanceAsync", "endFailedAuctionAsync", "bidAsync", "getBidPriceAsync",
    "getRebalanceDetailsAsync", "getRebalancingSetAuctionRemainingCurrentSets" }

\* C16: settleRebalanceAsync, endFailedAuctionAsync, bidAsync,
\* getBidPriceAsync, getRebalanceDetailsAsync and
\* getRebalancingSetAuctionRemainingCurrentSets are accepted only on a token
\* in Rebalance; on a token in Default or in Proposal each is rejected with
\* '... must be in Rebalance state to call that function.' and changes
\* nothing.
C16_OnlyInRebalance ==
  called(AuctionOperations)
  => /\ lastCall.pc = "done" => lastCall.before.rebalanceState = "Rebalance"
     /\ lastCall.before.rebalanceState \in {"Default", "Proposal"}
          => /\ lastCall.pc = "rejected"
             /\ lastCall.error = mustBeInState(REBALANCING_SET, "Rebalance")
             /\ tokenAsBefore

\* The remaining current sets were asked of a token in Proposal, and refused.
C16_RefusedInProposal ==
  /\ called({"getRebalancingSetAuctionRemainingCurrentSets"})
  /\ lastCall.before.rebalanceState = "Proposal"
  /\ lastCall.pc = "rejected"
  /\ lastCall.error[4] = "Rebalance"

proposedWell ==
  /\ called({"proposeAsync"})
  /\ lastCall.caller = lastCall.before.manager
  /\ lastCall.before.time >= lastCall.before.lastRebalanceTimestamp + rebalanceInterval
  /\ lastCall.args[1] \in ValidSets
  /\ lastCall.args[2] \in ValidCurves

notTheManager(caller) ==
  << "Caller ", caller, " is not the manager of this Rebalancing Set Token." >>

\* C19: only the token's current manager can call proposeAsync and
\* updateManagerAsync.  A call by anyone else is rejected and changes nothing,
\* with 'Caller <c> is not the manager of this Rebalancing Set Token.'
\* (for proposeAsync: when the call is otherwise in order); after
\* updateManagerAsync by the manager, the token's manager is the new address.
C19_OnlyTheManager ==
  called({"proposeAsync", "updateManagerAsync"})
  => /\ lastCall.pc = "done" => lastCall.caller = lastCall.before.manager
     /\ lastCall.caller # lastCall.before.manager
          => /\ lastCall.pc = "rejected"
             /\ tokenAsBefore
             /\ lastCall.method = "updateManagerAsync"
                  => lastCall.error = notTheManager(lastCall.caller)
             /\ ( /\ lastCall.method = "proposeAsync"
                  /\ lastCall.before.rebalanceState \in {"Default", "Proposal"}
                  /\ lastCall.before.time
                       >= lastCall.before.lastRebalanceTimestamp + rebalanceInterval
                  /\ lastCall.args[1] \in ValidSets
                  /\ lastCall.args[2] \in ValidCurves )
                  => lastCall.error = notTheManager(lastCall.caller)
     /\ (lastCall.method = "updateManagerAsync" /\ lastCall.caller = lastCall.before.manager)
          => /\ lastCall.pc = "done"
             /\ chain.manager = lastCall.args[1]

\* The old manager, having made ACCOUNTS[2] the manager, called
\* updateManagerAsync again and was refused.
C19_ManagerChanged ==
  /\ called({"updateManagerAsync"})
  /\ lastCall.caller = MANAGER
  /\ lastCall.before.manager # MANAGER
  /\ lastCall.pc = "rejected"
  /\ lastCall.error = notTheManager(MANAGER)
  /\ chain.manager = "ACCOUNTS[2]"

\* The text of the refusal of a call made before `nextAvailable`.
rebalanceTooSoon(nextAvailable) ==
  << "Attempting to rebalance too soon. Rebalancing next ",
     "available on ", nextAvailable >>

\* The last call was a proposal, through either API, made before the
\* rebalance interval had passed since the last rebalance.
proposedTooSoon ==
  /\ called({"proposeAsync", "RebalancingManagerAPI.proposeAsync"})
  /\ lastCall.method = "RebalancingManagerAPI.proposeAsync"
       => lastCall.args[1] \in ManagerTypes
  /\ lastCall.before.time < lastCall.before.lastRebalanceTimestamp + rebalanceInterval

\* The proposal had nothing but the time against it.
nothingElseAgainstIt ==
  IF lastCall.method = "proposeAsync"
    THEN /\ lastCall.caller = lastCall.before.manager
         /\ lastCall.before.rebalanceState \in {"Default", "Proposal"}
         /\ lastCall.args[1] \in ValidSets
         /\ lastCall.args[2] \in ValidCurves
    ELSE /\ lastCall.before.rebalanceState = "Default"
         /\ lastCall.before.manager = lastCall.args[2]
         /\ \/ lastCall.before.allocation < maximumLowerThreshold(lastCall.args[1])
            \/ lastCall.before.allocation >= minimumUpperThreshold(lastCall.args[1])

\* The last call was startRebalanceAsync on a token in Proposal, made before
\* the proposal period had passed since the proposal.
startedTooSoon ==
  /\ called({"startRebalanceAsync"})
  /\ lastCall.before.rebalanceState = "Proposal"
  /\ lastCall.before.time < lastCall.before.proposalStartTime + proposalPeriod

\* C20: proposeAsync, of RebalancingAPI and of RebalancingManagerAPI, is
\* rejected whenever the time is before lastRebalanceTimestamp plus
\* rebalanceInterval, and startRebalanceAsync on a proposed token whenever the
\* time is before proposalStartTime plus proposalPeriod; the message is
\* 'Attempting to rebalance too soon. Rebalancing next available on <date>'
\* (for a proposal: when it has nothing else against it), and the rejected
\* call leaves the rebalance state as it was.
C20_TooSoon ==
  /\ proposedTooSoon
       => /\ lastCall.pc = "rejected"
          /\ chain.rebalanceState = lastCall.before.rebalanceState
          /\ tokenAsBefore
          /\ nothingElseAgainstIt
               => lastCall.error =
                    rebalanceTooSoon(lastCall.before.lastRebalanceTimestamp + rebalanceInterval)
  /\ startedTooSoon
       => /\ lastCall.pc = "rejected"
          /\ chain.rebalanceState = "Proposal"
          /\ tokenAsBefore
          /\ lastCall.error =
               rebalanceTooSoon(lastCall.before.proposalStartTime + proposalPeriod)

\* A rebalance was asked to start on the day of its proposal, and refused
\* until the day after.
C20_StartRefusedOnProposalDay ==
  /\ startedTooSoon
  /\ lastCall.before.time = lastCall.before.proposalStartTime
  /\ lastCall.pc = "rejected"
  /\ lastCall.error[3] = lastCall.before.time + ONE_DAY
  /\ chain.rebalanceState = "Proposal"

\* C21: settleRebalanceAsync on a token in Rebalance succeeds only when
\* remainingCurrentSets is below minimumBid; the token is then in Default, its
\* currentSet is the proposed next Set and its lastRebalanceTimestamp is the
\* time of the settling block.  With remainingCurrentSets at least minimumBid
\* it is rejected ('In order to settle rebalance there must be less than
\* current <minimumBid> sets remaining ...') and state, currentSet and
\* lastRebalanceTimestamp are unchanged.
C21_Settle ==
  (called({"settleRebalanceAsync"}) /\ lastCall.before.rebalanceState = "Rebalance")
  => /\ lastCall.pc = "done"
          <=> lastCall.before.remainingCurrentSets < lastCall.before.minimumBid
     /\ lastCall.pc = "done"
          => /\ chain.rebalanceState = "Default"
             /\ chain.currentSet = lastCall.before.nextSet
             /\ chain.lastRebalanceTimestamp = lastCall.before.time
     /\ lastCall.before.remainingCurrentSets >= lastCall.before.minimumBid
          => /\ lastCall.pc = "rejected"
             /\ lastCall.error =
                  << "In order to settle rebalance there must be less than current ",
                     lastCall.before.minimumBid,
                     " sets remaining to be rebalanced. There are currently ",
                     lastCall.before.remainingCurrentSets, " remaining for rebalance." >>
             /\ chain.rebalanceState = "Rebalance"
             /\ chain.currentSet = lastCall.before.currentSet
             /\ chain.lastRebalanceTimestamp = lastCall.before.lastRebalanceTimestamp

\* A fully bid rebalance was settled: the token is in Default with the next
\* Set as its current Set, rebalanced at the time of the call.
C21_Settled ==
  /\ called({"settleRebalanceAsync"})
  /\ lastCall.pc = "done"
  /\ lastCall.before.currentSet = CURRENT_SET
  /\ lastCall.before.bids = IssuedQuantity
  /\ chain.currentSet = NEXT_SET
  /\ chain.rebalanceState = "Default"
  /\ chain.lastRebalanceTimestamp = lastCall.before.time
  /\ chain.lastRebalanceTimestamp > 0

\* The last call was endFailedAuctionAsync, and it was accepted.
auctionEnded == called({"endFailedAuctionAsync"}) /\ lastCall.pc = "done"

\* C22: endFailedAuctionAsync is accepted on a token in Rebalance after the
\* pivot time (with sets remaining).  With no bid placed in the auction the
\* token returns to Default; with at least one bid placed it enters Drawdown.
\* In both cases currentSet is not replaced by the proposed next Set, and
\* lastRebalanceTimestamp becomes the time of the ending block.
C22_EndFailedAuction ==
  /\ ( /\ called({"endFailedAuctionAsync"})
       /\ lastCall.before.rebalanceState = "Rebalance"
       /\ lastCall.before.time >= lastCall.before.auctionStartTime + auctionTimeToPivot
       /\ lastCall.before.remainingCurrentSets >= lastCall.before.minimumBid )
       => lastCall.pc = "done"
  /\ auctionEnded
       => /\ lastCall.before.rebalanceState = "Rebalance"
          /\ lastCall.before.time >= lastCall.before.auctionStartTime + auctionTimeToPivot
          /\ lastCall.before.remainingCurrentSets = lastCall.before.collateral
               => chain.rebalanceState = "Default"
          /\ lastCall.before.remainingCurrentSets < lastCall.before.collateral
               => chain.rebalanceState = "Drawdown"
          /\ chain.currentSet = lastCall.before.currentSet
          /\ chain.lastRebalanceTimestamp = lastCall.before.time

\* An auction with one bid placed and sets remaining was ended after its
\* pivot time, and the token is in Drawdown with the Set it had.
C22_EndedInDrawdown ==
  /\ auctionEnded
  /\ lastCall.before.remainingCurrentSets = IssuedQuantity - MinimumBid
  /\ chain.rebalanceState = "Drawdown"
  /\ chain.currentSet = CURRENT_SET
  /\ chain.nextSet = NEXT_SET
  /\ chain.lastRebalanceTimestamp = lastCall.before.time

\* The last call was endFailedAuctionAsync on a token in Rebalance: before
\* the pivot time of the auction; with no current sets remaining.
endedBeforePivot ==
  /\ called({"endFailedAuctionAsync"})
  /\ lastCall.before.rebalanceState = "Rebalance"
  /\ lastCall.before.time < lastCall.before.auctionStartTime + auctionTimeToPivot
endedFullyBid ==
  /\ called({"endFailedAuctionAsync"})
  /\ lastCall.before.rebalanceState = "Rebalance"
  /\ lastCall.before.remainingCurrentSets = 0

\* The texts of the two refusals.
pivotTimeNotYetReached ==
  << "Pivot time not yet reached. Pivot time starts at ",
     lastCall.before.auctionStartTime + auctionTimeToPivot >>
auctionHasNoRemainingBids ==
  << "Auction has no remaining bids. Cannot drawdown Set at ", REBALANCING_SET, "." >>

\* C23: endFailedAuctionAsync on a token in Rebalance is rejected when the
\* pivot time of the auction (its start plus auctionTimeToPivot) has not been
\* reached, with 'Pivot time not yet reached. ...', and when the auction has
\* been fully bid so that no current sets remain, with 'Auction has no
\* remaining bids. Cannot drawdown Set at <address>.' (a call that is both
\* gets one of the two); the rejected call leaves the token in Rebalance.
C23_EndFailedAuctionRejected ==
  (endedBeforePivot \/ endedFullyBid)
  => /\ lastCall.pc = "rejected"
     /\ chain.rebalanceState = "Rebalance"
     /\ tokenAsBefore
     /\ lastCall.error \in {pivotTimeNotYetReached, auctionHasNoRemainingBids}
     /\ ~endedFullyBid => lastCall.error = pivotTimeNotYetReached
     /\ ~endedBeforePivot => lastCall.error = auctionHasNoRemainingBids

\* A fully bid auction was asked to end as failed after its pivot time, and
\* the call was refused for want of remaining bids.
C23_RefusedFullyBid ==
  /\ endedFullyBid
  /\ ~endedBeforePivot
  /\ lastCall.pc = "rejected"
  /\ lastCall.error = auctionHasNoRemainingBids
  /\ chain.rebalanceState = "Rebalance"

\* The last call was bidAsync on a token in Rebalance.
bidInRebalance == called({"bidAsync"}) /\ lastCall.before.rebalanceState = "Rebalance"

\* C24: bidAsync on a token in Rebalance: a bid whose quantity exceeds
\* remainingCurrentSets, or is not a multiple of minimumBid, is rejected and
\* remainingCurrentSets is unchanged; an accepted bid of quantity q lowers
\* remainingCurrentSets by exactly q.
C24_Bid ==
  bidInRebalance
  => /\ ( \/ lastCall.args[1] > lastCall.before.remainingCurrentSets
          \/ lastCall.args[1] % lastCall.before.minimumBid # 0 )
          => /\ lastCall.pc = "rejected"
             /\ chain.remainingCurrentSets = lastCall.before.remainingCurrentSets
             /\ tokenAsBefore
     /\ lastCall.pc = "done"
          => chain.remainingCurrentSets
               = lastCall.before.remainingCurrentSets - lastCall.args[1]

\* A second bid of minimumBid was accepted and took the last current sets.
C24_LastSetsBid ==
  /\ bidInRebalance
  /\ lastCall.pc = "done"
  /\ lastCall.args[1] = MinimumBid
  /\ lastCall.before.remainingCurrentSets = MinimumBid
  /\ lastCall.before.bids > 0
  /\ chain.remainingCurrentSets = 0

\* The keys a step adds to the cache of wrapper w.
addedKeys(w) == DOMAIN cache'[w] \ DOMAIN cache[w]

\* C25: the handle cache of a ProtocolContractWrapper only grows: in every
\* step, whatever the interleaving of the loads, every key the cache held is
\* still in it, and a key is added only by a load whose handle construction
\* has just succeeded, under that load's key and with the handle it built.
C25_CacheOnlyGrows ==
  [][ \A w \in ContractWrappers :
        /\ DOMAIN cache[w] \subseteq DOMAIN cache'[w]
        /\ \A key \in addedKeys(w) :
             \E c \in DOMAIN calls :
               /\ calls[c].pc = "awaiting"
               /\ calls'[c].pc = "returned"
               /\ calls'[c].constructed
               /\ calls[c].w = w
               /\ key = <<cacheKeyPrefix(calls[c].kind), calls[c].address>>
               /\ cache'[w][key] = calls'[c].handle
               /\ Len(handles') = Len(handles) + 1 ]_vars

\* The cache holds two keys after two constructions, and a third
\* construction has failed.
C25_TwoKeysAndAFailure ==
  /\ Cardinality(DOMAIN cache[DirectWrapper]) = 2
  /\ \E c \in DOMAIN calls : calls[c].pc = "rejected"
  /\ Len(handles) = 2

\* C26: when two calls of one loader for the same key race, so that both
\* construct a handle and the later one overwrites the cached entry, the
\* overwriting handle is equivalent to the one it replaces: same kind, same
\* address, same call/send options, whatever transactionOptions the two calls
\* passed.
C26_OverwriteIsEquivalent ==
  [][ \A w \in ContractWrappers :
        \A key \in DOMAIN cache[w] :
          ( /\ cache'[w][key] # cache[w][key]
            /\ handles'[cache'[w][key]].kind = handles[cache[w][key]].kind )
          => /\ handles'[cache'[w][key]].address = handles[cache[w][key]].address
             /\ handles'[cache'[w][key]].options = handles[cache[w][key]].options ]_vars

====
